---------------------------- MODULE Spec2Model ----------------------------
(***************************************************************************)
(* Model of the SubRip subtitle splitter (src/main.py, src/app.py).        *)
(*                                                                         *)
(* Text is modelled at the level of characters: a Python str is a sequence *)
(* of one-character strings, so that split, replace, isdigit, int() and    *)
(* the f-string formatting are computed as the code computes them.         *)
(***************************************************************************)
EXTENDS Integers, Sequences, FiniteSets, TLC

VARIABLES
    pc,               \* position of the running call
    content,          \* text of the input file, as read by codecs.open
    max_length,       \* the max_length argument of main
    blocks,           \* main: the list returned by read_srt_file
    idx,              \* main: 1-based position of the for loop over blocks
    subtitle_number,  \* main: the running counter
    out,              \* the output file: the strings written, one per write
    printed,          \* what main printed last ("" before it prints)
    response,         \* app.index: what send_file delivered
    arg,              \* argument record of a directly called function
    ret               \* its return value

vars == <<pc, content, max_length, blocks, idx, subtitle_number, out,
          printed, response, arg, ret>>

-----------------------------------------------------------------------------
(* Bounds of the model.                                                    *)

MaxLineLen == 5       \* longest text line given to split_line directly
MaxMaxLength == 3     \* largest max_length tried
MaxBlocks == 3        \* most raw blocks in an input file
MaxSplits == 7        \* largest num_splits given to split_timecode directly
MaxDuration == 61     \* longest interval (ms) given to split_timecode directly
MaxFileLen == 5       \* most tokens of a file given to read_srt_file directly

-----------------------------------------------------------------------------
(* Characters and Python's str primitives.                                 *)

LF == "\n"
CR == "\r"
Digits == {"0", "1", "2", "3", "4", "5", "6", "7", "8", "9"}
Whitespace == {" ", "\t", LF, CR}
Arrow == <<" ", "-", "-", ">", " ">>

RECURSIVE Pow2(_)
Pow2(n) == IF n = 0 THEN 1 ELSE 2 * Pow2(n - 1)

DigitVal(c) ==
    CASE c = "0" -> 0 [] c = "1" -> 1 [] c = "2" -> 2 [] c = "3" -> 3
      [] c = "4" -> 4 [] c = "5" -> 5 [] c = "6" -> 6 [] c = "7" -> 7
      [] c = "8" -> 8 [] c = "9" -> 9

DigitChar(n) ==
    CASE n = 0 -> "0" [] n = 1 -> "1" [] n = 2 -> "2" [] n = 3 -> "3"
      [] n = 4 -> "4" [] n = 5 -> "5" [] n = 6 -> "6" [] n = 7 -> "7"
      [] n = 8 -> "8" [] n = 9 -> "9"

\* s starts with the string pre
StartsWith(s, pre) ==
    /\ Len(pre) <= Len(s)
    /\ SubSeq(s, 1, Len(pre)) = pre

Drop(s, n) == SubSeq(s, n + 1, Len(s))

\* s.find(sub) + 1: the first position sub occurs at in s, 0 if none
Find(s, sub) ==
    LET hits == {i \in 1..(Len(s) - Len(sub) + 1) : SubSeq(s, i, i + Len(sub) - 1) = sub}
    IN  IF hits = {} THEN 0 ELSE CHOOSE i \in hits : \A j \in hits : i <= j

\* sub in s
Contains(s, sub) == Find(s, sub) # 0

\* s.split(sep) for a non-empty separator: left to right, no overlap
RECURSIVE StrSplit(_, _)
StrSplit(s, sep) ==
    LET i == Find(s, sep) IN
    IF i = 0 THEN <<s>>
    ELSE <<SubSeq(s, 1, i - 1)>> \o StrSplit(Drop(s, i - 1 + Len(sep)), sep)

\* s.split(): the maximal runs of non-whitespace characters
RECURSIVE WordsAcc(_, _)
WordsAcc(s, cur) ==
    IF s = <<>> THEN (IF cur = <<>> THEN <<>> ELSE <<cur>>)
    ELSE IF Head(s) \in Whitespace
         THEN (IF cur = <<>> THEN <<>> ELSE <<cur>>) \o WordsAcc(Tail(s), <<>>)
    ELSE WordsAcc(Tail(s), Append(cur, Head(s)))

Words(s) == WordsAcc(s, <<>>)

\* sep.join(parts)
RECURSIVE StrJoin(_, _)
StrJoin(parts, sep) ==
    IF parts = <<>> THEN <<>>
    ELSE IF Len(parts) = 1 THEN parts[1]
    ELSE parts[1] \o sep \o StrJoin(Tail(parts), sep)

\* s.replace(old, new)
RECURSIVE StrReplace(_, _, _)
StrReplace(s, old, new) ==
    LET i == Find(s, old) IN
    IF i = 0 THEN s
    ELSE SubSeq(s, 1, i - 1) \o new \o StrReplace(Drop(s, i - 1 + Len(old)), old, new)

\* s.isdigit()
IsDigit(s) == s # <<>> /\ \A i \in 1..Len(s) : s[i] \in Digits

\* s.strip()
RECURSIVE LStrip(_)
LStrip(s) == IF s # <<>> /\ Head(s) \in Whitespace THEN LStrip(Tail(s)) ELSE s

RECURSIVE RStrip(_)
RStrip(s) ==
    IF s # <<>> /\ s[Len(s)] \in Whitespace THEN RStrip(SubSeq(s, 1, Len(s) - 1)) ELSE s

RECURSIVE StrToNat(_)
StrToNat(s) ==
    IF s = <<>> THEN 0 ELSE 10 * StrToNat(SubSeq(s, 1, Len(s) - 1)) + DigitVal(s[Len(s)])

\* int(s): surrounding whitespace and one sign are accepted; anything else
\* raises ValueError
IntBody(s) == LET t == RStrip(LStrip(s)) IN
    IF t # <<>> /\ Head(t) \in {"+", "-"} THEN Tail(t) ELSE t

IntOk(s) == IsDigit(IntBody(s))

IntVal(s) == LET t == RStrip(LStrip(s)) IN
    IF t # <<>> /\ Head(t) = "-" THEN 0 - StrToNat(IntBody(s)) ELSE StrToNat(IntBody(s))

\* str(n) for n >= 0
RECURSIVE IntToStr(_)
IntToStr(n) == IF n < 10 THEN <<DigitChar(n)>> ELSE IntToStr(n \div 10) \o <<DigitChar(n % 10)>>

\* f"{n:0wd}" for n >= 0: zero-padded to at least w characters
RECURSIVE ZeroPad(_, _)
ZeroPad(s, w) == IF Len(s) >= w THEN s ELSE ZeroPad(<<"0">> \o s, w)

FormatInt(n, w) == ZeroPad(IntToStr(n), w)

\* all strings over the alphabet A of at most n characters
StringsUpTo(A, n) == UNION {[1..m -> A] : m \in 0..n}

-----------------------------------------------------------------------------
(* split_line: greedy word wrap.                                           *)

\* mutant of Fits: the joining space is not counted
FitsWithoutSpace(current_line, word, max_len) ==
    Len(current_line \o word) <= max_len

\* the test of the loop: len(current_line + ' ' + word) <= max_length
Fits(current_line, word, max_len) ==
    Len(current_line \o <<" ">> \o word) <= max_len

RECURSIVE SplitLineLoop(_, _, _, _)
SplitLineLoop(words, current_line, split_lines, max_len) ==
    IF words = <<>>
    THEN (IF current_line # <<>> THEN Append(split_lines, current_line) ELSE split_lines)
    ELSE LET word == Head(words) IN
         IF Fits(current_line, word, max_len)
         THEN SplitLineLoop(Tail(words),
                            IF current_line # <<>> THEN current_line \o <<" ">> \o word ELSE word,
                            split_lines, max_len)
         ELSE SplitLineLoop(Tail(words), word, Append(split_lines, current_line), max_len)

split_line(line, max_len) == SplitLineLoop(Words(line), <<>>, <<>>, max_len)

-----------------------------------------------------------------------------
(* Direct calls of split_line.                                             *)

WrapAlphabet == {"a", " "}

Idle ==
    /\ content = <<>>
    /\ max_length = 0
    /\ blocks = <<>>
    /\ idx = 0
    /\ subtitle_number = 0
    /\ out = <<>>
    /\ printed = ""
    /\ response = [status |-> "none", body |-> <<>>]

IdleUnchanged ==
    UNCHANGED <<content, max_length, blocks, idx, subtitle_number, out, printed, response>>

InitWrap ==
    /\ pc = "call_split_line"
    /\ arg \in [line : StringsUpTo(WrapAlphabet, MaxLineLen), max_length : 1..MaxMaxLength]
    /\ ret = <<>>
    /\ Idle

CallSplitLine ==
    /\ pc = "call_split_line"
    /\ ret' = split_line(arg.line, arg.max_length)
    /\ pc' = "split_line_returned"
    /\ UNCHANGED arg
    /\ IdleUnchanged

NextWrap == CallSplitLine

SpecWrap == InitWrap /\ [][NextWrap]_vars

\* every word of the line is at most max_len long
AllWordsShort(line, max_len) ==
    \A i \in 1..Len(Words(line)) : Len(Words(line)[i]) <= max_len

\* C6 (over-long word): a line that is a single word longer than max_length
\* wraps to exactly that word; in general every over-long word is a line of
\* its own, and a line of over-long words only wraps to exactly its words.
C6_OverLongWord ==
    pc = "split_line_returned" =>
        LET words == Words(arg.line)
            long(w) == Len(w) > arg.max_length
        IN  /\ (Len(words) = 1 /\ long(words[1])) => ret = <<words[1]>>
            /\ \A i \in 1..Len(words) :
                   long(words[i]) => \E j \in 1..Len(ret) : ret[j] = words[i]
            /\ (\A i \in 1..Len(words) : long(words[i])) => ret = words

\* C7 (wrapping bound): when every word of the line is at most max_length
\* long, every line split_line returns is at most max_length long.
C7_WrappingBound ==
    (pc = "split_line_returned" /\ AllWordsShort(arg.line, arg.max_length)) =>
        \A j \in 1..Len(ret) : Len(ret[j]) <= arg.max_length

\* a call that joined two words into one line and started another line
C7_Witness ==
    /\ pc = "split_line_returned"
    /\ AllWordsShort(arg.line, arg.max_length)
    /\ Len(Words(arg.line)) >= 3
    /\ Len(ret) >= 2
    /\ \E j \in 1..Len(ret) : Len(ret[j]) = arg.max_length /\ Contains(ret[j], <<" ">>)

-----------------------------------------------------------------------------
(* Floating point.  split_timecode computes                                *)
(*     duration_per_split = (end_ms - start_ms) / num_splits               *)
(*     start_ms + i * duration_per_split                                   *)
(* in IEEE 754 binary64 (round to nearest, ties to even) and convert_to_str*)
(* takes the floor of the result.  With d = end_ms - start_ms >= 0 and     *)
(* k = num_splits, the quotient q = fl(d / k) is M * 2^(b-52) with         *)
(* b = floor(log2(d/k)) and M = RNE(d * 2^(52-b) / k).  The 53-bit M does  *)
(* not fit TLC's integers, but the floor of fl(s + fl(i * q)) depends only *)
(* on the residual r = k*M - d*2^(52-b), which modular arithmetic gives.   *)

MantissaBits == 52

\* floor(log2(n)) for an integer n >= 1
RECURSIVE ILog2Int(_)
ILog2Int(n) == IF n < 2 THEN 0 ELSE 1 + ILog2Int(n \div 2)

IsPow2(n) == Pow2(ILog2Int(n)) = n

\* floor(log2(d / k)) for integers d, k >= 1
RECURSIVE ILog2Up(_, _)
ILog2Up(d, k) == IF d >= 2 * k THEN 1 + ILog2Up(d, 2 * k) ELSE 0

RECURSIVE ILog2Down(_, _)
ILog2Down(d, k) == IF d >= k THEN 0 ELSE ILog2Down(2 * d, k) - 1

ILog2Rat(d, k) == IF d >= k THEN ILog2Up(d, k) ELSE ILog2Down(d, k)

\* 2^e mod m
RECURSIVE Pow2Mod(_, _)
Pow2Mod(e, m) == IF e = 0 THEN 1 % m ELSE (2 * Pow2Mod(e - 1, m)) % m

\* num / den rounded to the nearest integer, ties to the even one (den > 0)
RoundHalfEven(num, den) ==
    LET f == num \div den
        rem == num - f * den
    IN  IF 2 * rem < den THEN f
        ELSE IF 2 * rem > den THEN f + 1
        ELSE IF f % 2 = 0 THEN f ELSE f + 1

\* r = k*M - d*2^E for M = RNE(d * 2^E / k) and E = 52 - floor(log2(d/k)):
\* k * fl(d/k) exceeds d by r / 2^E
QuotientResidual(d, k) ==
    LET E == MantissaBits - ILog2Rat(d, k)
        rem == ((d % k) * Pow2Mod(E, k)) % k
        rem2 == ((d % (2 * k)) * Pow2Mod(E, 2 * k)) % (2 * k)
    IN  IF 2 * rem < k THEN 0 - rem
        ELSE IF 2 * rem > k THEN k - rem
        ELSE IF rem2 < k THEN 0 - rem ELSE k - rem

\* floor(fl(s + fl(i * fl(d / k)))) for integers s >= 0, d >= 0, k >= 1, 0 <= i <= k.
\* When i*d/k is no integer the rounding errors (below 2^-20) cannot reach the
\* next integer.  When it is the integer n, fl(i*q) = n + t*u for the unit u
\* of n's binade (half of it below a power of two), and adding s rounds t*u
\* to the unit of s + n; the floor is one less exactly when the sum ends below.
FloatBoundary(s, d, k, i) ==
    IF d = 0 \/ i = 0 THEN s
    ELSE IF (i * d) % k # 0 THEN s + ((i * d) \div k)
    ELSE LET n == (i * d) \div k
             T == s + n
             r == QuotientResidual(d, k)
             b == ILog2Rat(d, k)
             an == ILog2Int(n)
             eu == IF r < 0 /\ IsPow2(n) THEN an - 1 ELSE an
             t == RoundHalfEven(i * r * Pow2(an - eu), k * Pow2(an - b))
             aT == ILog2Int(T)
             eU == IF IsPow2(T) THEN aT - 1 ELSE aT
             t2 == RoundHalfEven(t, Pow2(eU - eu))
         IN  IF t >= 0 THEN T
             ELSE IF t2 < 0 THEN T - 1 ELSE T

-----------------------------------------------------------------------------
(* The timecode codec.                                                     *)

\* convert_to_ms raises ValueError unless time_str splits into three fields
\* at ':' and the third into two at ',' and int() accepts all four
ConvertToMsOk(time_str) ==
    LET hms == StrSplit(time_str, <<":">>) IN
    /\ Len(hms) = 3
    /\ LET sms == StrSplit(hms[3], <<",">>) IN
       /\ Len(sms) = 2
       /\ IntOk(hms[1]) /\ IntOk(hms[2]) /\ IntOk(sms[1]) /\ IntOk(sms[2])

convert_to_ms(time_str) ==
    LET hms == StrSplit(time_str, <<":">>)
        sms == StrSplit(hms[3], <<",">>)
    IN  IntVal(hms[1]) * 3600000 + IntVal(hms[2]) * 60000
          + IntVal(sms[1]) * 1000 + IntVal(sms[2])

\* convert_to_str(x) for a float x >= 0 whose floor is ms: every field is
\* cut to an integer by // or int(), so the fields are those of floor(x)
convert_to_str(ms) ==
    LET h == ms \div 3600000
        m == (ms % 3600000) \div 60000
        s == (ms % 60000) \div 1000
        f == ms % 1000
    IN  FormatInt(h, 2) \o <<":">> \o FormatInt(m, 2) \o <<":">> \o FormatInt(s, 2)
          \o <<",">> \o FormatInt(f, 3)

\* the i-th timecode of split_timecode's loop (i from 0)
SplitTimecodeEntry(start_ms, end_ms, num_splits, i) ==
    convert_to_str(FloatBoundary(start_ms, end_ms - start_ms, num_splits, i))
      \o Arrow
      \o convert_to_str(FloatBoundary(start_ms, end_ms - start_ms, num_splits, i + 1))

\* split_timecode: exc is the exception raised ("none": val is returned).
\* The model covers 0 <= start_ms <= end_ms.
split_timecode(timecode, num_splits) ==
    LET parts == StrSplit(timecode, Arrow) IN
    IF Len(parts) # 2 THEN [exc |-> "ValueError", val |-> <<>>]
    ELSE IF ~ConvertToMsOk(parts[1]) \/ ~ConvertToMsOk(parts[2])
         THEN [exc |-> "ValueError", val |-> <<>>]
    ELSE IF num_splits = 0 THEN [exc |-> "ZeroDivisionError", val |-> <<>>]
    ELSE LET start_ms == convert_to_ms(parts[1])
             end_ms == convert_to_ms(parts[2])
         IN  [exc |-> "none",
              val |-> [i \in 1..num_splits |->
                         SplitTimecodeEntry(start_ms, end_ms, num_splits, i - 1)]]

-----------------------------------------------------------------------------
(* Direct calls of split_timecode.                                         *)

StartSamples == {0, 1, 1000, 3599985}

TimecodeLine(start_ms, end_ms) ==
    convert_to_str(start_ms) \o Arrow \o convert_to_str(end_ms)

InitTimecode ==
    /\ pc = "call_split_timecode"
    /\ arg \in {[timecode |-> TimecodeLine(s, s + d), num_splits |-> k] :
                  s \in StartSamples, d \in 0..MaxDuration, k \in 1..MaxSplits}
    /\ ret = <<>>
    /\ Idle

CallSplitTimecode ==
    /\ pc = "call_split_timecode"
    /\ ret' = split_timecode(arg.timecode, arg.num_splits)
    /\ pc' = "split_timecode_returned"
    /\ UNCHANGED arg
    /\ IdleUnchanged

NextTimecode == CallSplitTimecode

SpecTimecode == InitTimecode /\ [][NextTimecode]_vars

\* the (start, end) milliseconds a timecode line reads back as
ReadBack(timecode) ==
    LET parts == StrSplit(timecode, Arrow) IN
    [start |-> convert_to_ms(parts[1]), end |-> convert_to_ms(parts[2])]

\* C1 (partition law): the timecodes split_timecode returns for 'S --> E'
\* and k >= 1, read back as milliseconds, start at S, end at E and each ends
\* where the next starts.
C1_PartitionLaw ==
    pc = "split_timecode_returned" =>
        LET orig == ReadBack(arg.timecode)
            k == arg.num_splits
        IN  /\ ret.exc = "none"
            /\ Len(ret.val) = k
            /\ ReadBack(ret.val[1]).start = orig.start
            /\ ReadBack(ret.val[k]).end = orig.end
            /\ \A i \in 1..(k - 1) : ReadBack(ret.val[i]).end = ReadBack(ret.val[i + 1]).start

-----------------------------------------------------------------------------
(* read_srt_file.                                                          *)

RECURSIVE DropNewlines(_)
DropNewlines(s) == IF s # <<>> /\ Head(s) = LF THEN DropNewlines(Tail(s)) ELSE s

\* re.split(r'\n\n+', s): cut at every maximal run of two or more newlines
RECURSIVE RegexSplit(_)
RegexSplit(s) ==
    LET i == Find(s, <<LF, LF>>) IN
    IF i = 0 THEN <<s>>
    ELSE <<SubSeq(s, 1, i - 1)>> \o RegexSplit(DropNewlines(Drop(s, i - 1)))

\* content.replace('\r\n', '\n')
NormalizeLineEndings(text) == StrReplace(text, <<CR, LF>>, <<LF>>)

read_srt_file(text) == RegexSplit(NormalizeLineEndings(text))

-----------------------------------------------------------------------------
(* Direct calls of read_srt_file.  A file is a sequence of tokens: the     *)
(* character "a" or a line break written in one of the three styles.       *)

BreakTokens == {"LF", "CRLF", "CR"}
FileTokens == {"a"} \cup BreakTokens

BreakChars(tok) ==
    CASE tok = "LF" -> <<LF>> [] tok = "CRLF" -> <<CR, LF>> [] tok = "CR" -> <<CR>>

RECURSIVE Render(_)
Render(file) ==
    IF file = <<>> THEN <<>>
    ELSE (IF Head(file) \in BreakTokens THEN BreakChars(Head(file)) ELSE <<Head(file)>>)
           \o Render(Tail(file))

\* the same file with every line break written as LF
AsLF(file) == [i \in 1..Len(file) |-> IF file[i] \in BreakTokens THEN "LF" ELSE file[i]]

\* a CR token directly before an LF token would read as one CRLF
Unambiguous(file) ==
    \A i \in 1..(Len(file) - 1) : ~(file[i] = "CR" /\ file[i + 1] = "LF")

InitRead ==
    /\ pc = "call_read_srt_file"
    /\ arg \in {[file |-> f] : f \in {g \in StringsUpTo(FileTokens, MaxFileLen) : Unambiguous(g)}}
    /\ ret = <<>>
    /\ Idle

CallReadSrtFile ==
    /\ pc = "call_read_srt_file"
    /\ ret' = read_srt_file(Render(arg.file))
    /\ pc' = "read_srt_file_returned"
    /\ UNCHANGED arg
    /\ IdleUnchanged

NextRead == CallReadSrtFile

SpecRead == InitRead /\ [][NextRead]_vars

\* the blocks of a token file: cut at every run of two or more line breaks,
\* a single line break staying in its block as a newline
RECURSIVE DropBreaks(_)
DropBreaks(file) ==
    IF file # <<>> /\ Head(file) \in BreakTokens THEN DropBreaks(Tail(file)) ELSE file

RECURSIVE LogicalBlocksAcc(_, _)
LogicalBlocksAcc(file, cur) ==
    IF file = <<>> THEN <<cur>>
    ELSE IF Len(file) >= 2 /\ file[1] \in BreakTokens /\ file[2] \in BreakTokens
         THEN <<cur>> \o LogicalBlocksAcc(DropBreaks(file), <<>>)
    ELSE LogicalBlocksAcc(Tail(file),
                          Append(cur, IF Head(file) \in BreakTokens THEN LF ELSE Head(file)))

LogicalBlocks(file) == LogicalBlocksAcc(file, <<>>)

\* C8 (line-ending normalization): the blocks read from a file do not depend
\* on the style (LF, CRLF, CR or a mix) its line breaks are written in, and
\* are the pieces between runs of two or more line breaks.
C8_LineEndingNormalization ==
    pc = "read_srt_file_returned" =>
        /\ ret = read_srt_file(Render(AsLF(arg.file)))
        /\ ret = LogicalBlocks(arg.file)

-----------------------------------------------------------------------------
(* process_block.                                                          *)

\* lines after "Skip the numeric identifier if present"
BlockLines(block) ==
    LET lines == StrSplit(block, <<LF>>) IN
    IF IsDigit(lines[1]) THEN Tail(lines) ELSE lines

\* mutant of TooFewLines: a block of a timecode alone passes
TooFewLinesOffByOne(lines) == Len(lines) < 1

\* "Check if the block has at least 2 lines (timecode and text)"
TooFewLines(lines) == Len(lines) < 2

\* "Validate timecode format"
HasArrow(timecode) == Contains(timecode, Arrow)

\* split_lines_flat: every text line wrapped, the results concatenated
RECURSIVE WrapAll(_, _)
WrapAll(text_lines, max_len) ==
    IF text_lines = <<>> THEN <<>>
    ELSE split_line(Head(text_lines), max_len) \o WrapAll(Tail(text_lines), max_len)

Skipped == [exc |-> "none", text |-> <<>>, n |-> 0]

\* process_block: exc is the exception raised ("none": (text, n) is returned)
process_block(block, max_len) ==
    LET lines == BlockLines(block) IN
    IF TooFewLines(lines) THEN Skipped
    ELSE IF ~HasArrow(lines[1]) THEN Skipped
    ELSE LET split_lines_flat == WrapAll(Tail(lines), max_len)
             processed_timecodes == split_timecode(lines[1], Len(split_lines_flat))
         IN  IF processed_timecodes.exc # "none"
             THEN [exc |-> processed_timecodes.exc, text |-> <<>>, n |-> 0]
             ELSE [exc |-> "none",
                   text |-> StrJoin([i \in 1..Len(split_lines_flat) |->
                                       processed_timecodes.val[i] \o <<LF>> \o split_lines_flat[i]],
                                    <<LF, LF>>),
                   n |-> Len(split_lines_flat)]

-----------------------------------------------------------------------------
(* main and its caller app.index.                                          *)

ErrorMessage == "An error occurred"
DoneMessage == "Processed subtitles written"

\* mutant of Increment: the counter is left as it is
IncrementForgotten(n) == n

\* subtitle_number += 1
Increment(n) == n + 1

\* the strings the inner loop writes for block_lines, numbering from n
RECURSIVE WriteRecords(_, _)
WriteRecords(block_lines, n) ==
    IF block_lines = <<>> THEN <<>>
    ELSE <<IntToStr(n) \o <<LF>> \o Head(block_lines) \o <<LF, LF>>>>
           \o WriteRecords(Tail(block_lines), Increment(n))

\* subtitle_number after the inner loop
RECURSIVE NumberAfter(_, _)
NumberAfter(block_lines, n) ==
    IF block_lines = <<>> THEN n ELSE NumberAfter(Tail(block_lines), Increment(n))

\* the text of the output file
RECURSIVE Concat(_)
Concat(writes) == IF writes = <<>> THEN <<>> ELSE Head(writes) \o Concat(Tail(writes))

\* the raw blocks the input files are made of, as lists of lines
Text(s1, s2) == s1 \o <<" ">> \o s2

SampleBlocks ==
    { <<<<"1">>, TimecodeLine(1000, 3000), Text(<<"a", "b">>, <<"c", "d">>)>>,
      <<TimecodeLine(0, 61), Text(<<"a">>, <<"b">>), <<"c">>>>,
      <<<<"2">>, <<"a", "b">>>>,
      <<<<"3">>, <<"a", "b">>, <<"c", "d">>>>,
      <<<<"4">>, <<"x">> \o Arrow \o <<"y">>, <<"a", "b">>>>,
      <<<<"5">>, TimecodeLine(1000, 3000), <<>>>>,
      <<<<"6">>, TimecodeLine(1000, 3000), <<" ">>>> }

LineEndings == {<<LF>>, <<CR, LF>>}

\* a file: its blocks separated by a blank line, in one line-ending style
FileText(bs, eol) ==
    StrJoin([i \in 1..Len(bs) |-> StrJoin(bs[i], eol)], eol \o eol)

InputFiles ==
    {FileText(bs, eol) : bs \in UNION {[1..n -> SampleBlocks] : n \in 0..MaxBlocks},
                         eol \in LineEndings}

Init ==
    /\ pc = "main"
    /\ content \in InputFiles
    /\ max_length \in 1..MaxMaxLength
    /\ blocks = <<>>
    /\ idx = 0
    /\ subtitle_number = 0
    /\ out = <<>>
    /\ printed = ""
    /\ response = [status |-> "none", body |-> <<>>]
    /\ arg = <<>>
    /\ ret = <<>>

\* main: read the input, set the counter, open the output file
MainStart ==
    /\ pc = "main"
    /\ blocks' = read_srt_file(content)
    /\ subtitle_number' = 1
    /\ out' = <<>>
    /\ idx' = 1
    /\ pc' = "loop"
    /\ UNCHANGED <<content, max_length, printed, response, arg, ret>>

\* one turn of the for loop whose block is processed and written
MainWriteBlock ==
    /\ pc = "loop"
    /\ idx <= Len(blocks)
    /\ LET r == process_block(blocks[idx], max_length) IN
       /\ r.exc = "none"
       /\ r.text # <<>>
       /\ LET block_lines == StrSplit(r.text, <<LF, LF>>) IN
          /\ out' = out \o WriteRecords(block_lines, subtitle_number)
          /\ subtitle_number' = NumberAfter(block_lines, subtitle_number)
    /\ idx' = idx + 1
    /\ UNCHANGED <<pc, content, max_length, blocks, printed, response, arg, ret>>

\* one turn of the for loop whose processed_block is empty
MainSkipBlock ==
    /\ pc = "loop"
    /\ idx <= Len(blocks)
    /\ LET r == process_block(blocks[idx], max_length) IN
       /\ r.exc = "none"
       /\ r.text = <<>>
    /\ idx' = idx + 1
    /\ UNCHANGED <<pc, content, max_length, blocks, subtitle_number, out, printed,
                   response, arg, ret>>

\* process_block raises: the with statement closes the file as it is, the
\* except clause prints, main returns
MainBlockRaises ==
    /\ pc = "loop"
    /\ idx <= Len(blocks)
    /\ process_block(blocks[idx], max_length).exc # "none"
    /\ printed' = ErrorMessage
    /\ pc' = "main_returned"
    /\ UNCHANGED <<content, max_length, blocks, idx, subtitle_number, out, response,
                   arg, ret>>

\* the loop ends: the file is closed, main prints and returns
MainFinish ==
    /\ pc = "loop"
    /\ idx > Len(blocks)
    /\ printed' = DoneMessage
    /\ pc' = "main_returned"
    /\ UNCHANGED <<content, max_length, blocks, idx, subtitle_number, out, response,
                   arg, ret>>

\* app.index: after main returns, send_file(output_file_path)
AppSendFile ==
    /\ pc = "main_returned"
    /\ response' = [status |-> "sent", body |-> Concat(out)]
    /\ pc' = "responded"
    /\ UNCHANGED <<content, max_length, blocks, idx, subtitle_number, out, printed,
                   arg, ret>>

Next ==
    \/ MainStart
    \/ MainWriteBlock
    \/ MainSkipBlock
    \/ MainBlockRaises
    \/ MainFinish
    \/ AppSendFile

Spec == Init /\ [][Next]_vars

-----------------------------------------------------------------------------
(* Claims about main.                                                      *)

Returned == pc \in {"main_returned", "responded"}

\* the first line of a written record
IndexLine(record) == StrSplit(record, <<LF>>)[1]

\* C2 (index contiguity): the index lines written are, in order, 1, 2, ...,
\* N for the N records written, whatever the indices of the input were, and
\* the counter is one past the last of them.
C2_IndexContiguity ==
    /\ \A i \in 1..Len(out) : IndexLine(out[i]) = IntToStr(i)
    /\ pc \in {"loop", "main_returned", "responded"} => subtitle_number = Len(out) + 1

\* a block skipped, in the sense of the claim
InvalidBlock(block) ==
    LET all == StrSplit(block, <<LF>>)
        rest == IF IsDigit(all[1]) THEN SubSeq(all, 2, Len(all)) ELSE all
    IN  \/ Len(rest) < 2
        \/ Find(rest[1], Arrow) = 0

\* main ran to its end over an input with an invalid block between written
\* ones, an input index other than the one written, and three records or more
C2_Witness ==
    /\ pc = "responded"
    /\ printed = DoneMessage
    /\ Len(out) >= 3
    /\ Len(blocks) = 3
    /\ InvalidBlock(blocks[2])
    /\ ~InvalidBlock(blocks[1]) /\ ~InvalidBlock(blocks[3])
    /\ \E i \in 1..Len(out) : \E j \in 1..Len(blocks) :
           /\ IsDigit(IndexLine(blocks[j]))
           /\ IndexLine(blocks[j]) # IndexLine(out[i])

\* C3 (skip semantics): for a block that, its numeric first line discarded,
\* has fewer than 2 lines or no ' --> ' in its first line, process_block
\* returns ('', 0) and the turn of the loop writes nothing and leaves the
\* counter as it is.
C3_SkipSemantics ==
    [][ (pc = "loop" /\ idx <= Len(blocks) /\ InvalidBlock(blocks[idx])) =>
            /\ process_block(blocks[idx], max_length) = Skipped
            /\ out' = out
            /\ subtitle_number' = subtitle_number
            /\ idx' = idx + 1
            /\ pc' = "loop" ]_vars

\* an invalid block was skipped after records were written, and the next
\* block is about to be written with the counter where it was
C3_Witness ==
    /\ pc = "loop"
    /\ idx = 3
    /\ Len(blocks) = 3
    /\ InvalidBlock(blocks[2])
    /\ Len(out) >= 2
    /\ subtitle_number = Len(out) + 1
    /\ process_block(blocks[3], max_length).n >= 1

\* the number of wrapped lines of the valid blocks of bs
RECURSIVE TotalLines(_, _)
TotalLines(bs, max_len) ==
    IF bs = <<>> THEN 0
    ELSE (IF process_block(Head(bs), max_len).exc = "none"
          THEN process_block(Head(bs), max_len).n ELSE 0)
         + TotalLines(Tail(bs), max_len)

\* C4 (partial-failure tolerance): an error local to one block does not stop
\* the rest of the file: when main returns, every valid block of the input
\* has been split and written.
C4_PartialFailureTolerance ==
    Returned => Len(out) = TotalLines(blocks, max_length)

\* a block with a line containing ' --> ', at least one more line, and text
\* lines that all wrap to no line
DegenerateBlock(block, max_len) ==
    LET all == StrSplit(block, <<LF>>)
        rest == IF IsDigit(all[1]) THEN SubSeq(all, 2, Len(all)) ELSE all
    IN  /\ Len(rest) >= 2
        /\ Find(rest[1], Arrow) # 0
        /\ \A i \in 2..Len(rest) : Words(rest[i]) = <<>>

\* C5 (degenerate block guard): a block whose text lines all wrap to zero
\* lines is treated like an invalid block: process_block returns ('', 0)
\* and raises nothing.
C5_DegenerateBlockGuard ==
    (pc = "loop" /\ idx <= Len(blocks) /\ DegenerateBlock(blocks[idx], max_length)) =>
        process_block(blocks[idx], max_length) = Skipped

\* C9 (no partial output): after an error in the loop, main does not return
\* to its caller as if it had succeeded, and the file written so far is not
\* delivered as the result.
C9_NoPartialOutput ==
    printed = ErrorMessage =>
        /\ pc # "main_returned"
        /\ response.status # "sent"

\* C10 (record format and pairing): for a valid block with k >= 1 wrapped
\* lines, the turn of the loop writes exactly k records, the i-th being
\* '<index>\n<timecode>\n<text>\n\n' with the i-th timecode of split_timecode
\* and the i-th wrapped line.
C10_RecordFormat ==
    [][ (/\ pc = "loop"
         /\ idx <= Len(blocks)
         /\ ~InvalidBlock(blocks[idx])
         /\ process_block(blocks[idx], max_length).exc = "none"
         /\ process_block(blocks[idx], max_length).n >= 1) =>
            LET all == StrSplit(blocks[idx], <<LF>>)
                rest == IF IsDigit(all[1]) THEN SubSeq(all, 2, Len(all)) ELSE all
                wrapped == WrapAll(SubSeq(rest, 2, Len(rest)), max_length)
                timecodes == split_timecode(rest[1], Len(wrapped)).val
            IN  out' = out \o [i \in 1..Len(wrapped) |->
                                 IntToStr(subtitle_number + i - 1) \o <<LF>>
                                   \o timecodes[i] \o <<LF>>
                                   \o wrapped[i] \o <<LF, LF>>] ]_vars

=============================================================================
